---- MODULE Spec2Model ----
(***************************************************************************)
(* dl_series.py: the link store (read_links, update_line_status,           *)
(* create_backup), the per-entry pipeline (process_download), the worker   *)
(* pool (download_worker) and the main thread (process_downloads, run).    *)
(*                                                                         *)
(* A file is a flat sequence of tokens; NL is the line terminator.  The    *)
(* in-place rewrite of update_line_status goes through fileinput, which    *)
(* moves the file to <name>.bak, points sys.stdout at a new file of the    *)
(* old name, and deletes <name>.bak when the output is closed; the steps   *)
(* of that mechanism are separate actions because other threads run        *)
(* between them.                                                           *)
(***************************************************************************)
EXTENDS Integers, Sequences, FiniteSets, TLC

\* ------------------------------------------------------------------ bounds
MaxLines == 2
MaxSize == 1
MaxCalls == 1
MaxJunk == 1
SameLines == 3
PoolLines == 5

\* ------------------------------------------------------- program constants
max_concurrent == 4

\* the thread ids of the model: one more than process_downloads starts, so
\* that how many workers exist is decided by its loop (lines 721-727)
Workers == 0 .. max_concurrent
NoThread == max_concurrent + 1

\* ------------------------------------------------------------------ tokens
NL == "<nl>"
SP == " "
HASH == "#"
HTTPS == "https://"

S_Complete == <<HASH, SP, "COMPLETE">>
S_CompleteExisted == <<HASH, SP, "COMPLETE", SP, "(already existed)">>
S_Failed == <<HASH, SP, "FAILED", SP, "-", SP>>
S_FailedMove == <<HASH, SP, "FAILED", SP, "-", SP, "could not move existing file">>
S_FailedMismatch == <<HASH, SP, "FAILED", SP, "-", SP, "size mismatch">>
\* one reason text for every failed size check
S_FailedSizeCheck == S_FailedMismatch

S_FailedUnknown == <<HASH, SP, "FAILED", SP, "-", SP, "cannot verify file size">>

\* ------------------------------------------------------- string operations
\* index of the first occurrence of token t in s, 0 when there is none
RECURSIVE FindFrom(_, _, _)
FindFrom(s, t, k) ==
  IF k > Len(s) THEN 0 ELSE IF s[k] = t THEN k ELSE FindFrom(s, t, k + 1)

Find(s, t) == FindFrom(s, t, 1)

\* f.readlines() / iteration over a file: split after every NL, keeping it
RECURSIVE ReadLines(_)
ReadLines(c) ==
  IF c = << >> THEN << >>
  ELSE LET k == Find(c, NL)
       IN IF k = 0 THEN <<c>>
          ELSE <<SubSeq(c, 1, k)>> \o ReadLines(SubSeq(c, k + 1, Len(c)))

\* line.rstrip('\n')
RECURSIVE RStripNL(_)
RStripNL(l) ==
  IF l # << >> /\ l[Len(l)] = NL THEN RStripNL(SubSeq(l, 1, Len(l) - 1)) ELSE l

IsSpace(t) == t = SP \/ t = NL

\* line.strip()
RECURSIVE LStrip(_)
LStrip(l) == IF l # << >> /\ IsSpace(l[1]) THEN LStrip(Tail(l)) ELSE l

RECURSIVE RStrip(_)
RStrip(l) ==
  IF l # << >> /\ IsSpace(l[Len(l)]) THEN RStrip(SubSeq(l, 1, Len(l) - 1)) ELSE l

Strip(l) == RStrip(LStrip(l))

StartsWith(l, p) == Len(l) >= Len(p) /\ SubSeq(l, 1, Len(p)) = p

\* print(x): the text and a newline
PrintLine(x) == x \o <<NL>>

\* a replacement text that keeps whatever the line held
NewLineKeepAll(original_line, new_status) ==
  new_status \o <<SP>> \o original_line

\* lines 160-171: the replacement text of the addressed line
NewLine(original_line, new_status) ==
  LET k == Find(original_line, HTTPS)
      clean_line ==
        IF StartsWith(original_line, <<HASH, SP>>)
        THEN IF k # 0 THEN SubSeq(original_line, k, Len(original_line))
             ELSE original_line
        ELSE original_line
  IN new_status \o <<SP>> \o clean_line

\* a scan that tests the lines untrimmed
RECURSIVE ScanLinksUntrimmed(_, _)
ScanLinksUntrimmed(lines, i) ==
  IF i >= Len(lines) THEN << >>
  ELSE (IF StartsWith(lines[i + 1], <<HTTPS>>) THEN <<i>> ELSE << >>)
       \o ScanLinksUntrimmed(lines, i + 1)

\* lines 141-147: the indexes of the pending lines, 0-based (the url that
\* goes with each is the trimmed line)
RECURSIVE ScanLinks(_, _)
ScanLinks(lines, i) ==
  IF i >= Len(lines) THEN << >>
  ELSE LET stripped == Strip(lines[i + 1])
       IN (IF StartsWith(stripped, <<HTTPS>>) THEN <<i>> ELSE << >>)
          \o ScanLinks(lines, i + 1)

\* line 139: the lines of the file without their terminators
StripLines(c) ==
  LET ls == ReadLines(c) IN [j \in 1 .. Len(ls) |-> RStripNL(ls[j])]

Pending(c) == ScanLinks(StripLines(c), 0)

\* ------------------------------------------------------------ file system
\* a directory entry: absent, a file with content c, or a file created by
\* thread w whose text is still in w's output buffer (empty on disk)
Absent == [st |-> "absent", c |-> << >>, w |-> NoThread]
Data(c) == [st |-> "data", c |-> c, w |-> NoThread]
Unflushed(t) == [st |-> "open", c |-> << >>, w |-> t]

\* what sys.stdout refers to: the terminal, the open output file of thread
\* w's FileInput, or an output file that has been closed
Tty == [k |-> "tty", w |-> NoThread]
Closed == [k |-> "closed", w |-> NoThread]
Obj(t) == [k |-> "obj", w |-> t]
NoSave == [k |-> "none", w |-> NoThread]

\* a FileInput object: _backupfilename set, _file open, _output open,
\* _savestdout, the lines not yet iterated, current_line, the output buffer
FiNew ==
  [bak |-> FALSE, file |-> FALSE, out |-> FALSE, save |-> NoSave,
   inp |-> << >>, cur |-> 0, buf |-> << >>]

\* sizes: a local file, and the result of the size probe
NoLocal == [ex |-> FALSE, n |-> 0]
Sized(n) == [ex |-> TRUE, n |-> n]
LocalFiles == {NoLocal} \cup {Sized(n) : n \in 0 .. MaxSize}
Unknown == [known |-> FALSE, n |-> 0]
Known(n) == [known |-> TRUE, n |-> n]
Probes == {Unknown} \cup {Known(n) : n \in 0 .. MaxSize}

\* ------------------------------------------------------------- variables
VARIABLES
  links,            \* the link list <name>.links
  bak,              \* <name>.links.bak: self.backup_file and fileinput's backup
  stdout,           \* sys.stdout
  fi_state,         \* fileinput._state: the thread whose FileInput it is
  fi,               \* per thread, its latest FileInput object
  pc,               \* per thread, its position
  item,             \* per thread, line_num of the entry or call in hand
  want,             \* per thread, new_status of the rewrite in hand
  new_line,         \* per thread, new_line of the rewrite in hand
  ulsret,           \* per thread, what update_line_status returned
  expected,         \* per thread, expected_size
  slot_status,      \* self.slot_status
  queue,            \* self.download_queue
  localfile,        \* per file name, the file of that name in the cwd
  seriesfile,       \* per file name, the files name, name_1, name_2, ... in
                    \* series_dir
  existing_size,    \* per thread, what check_existing_file returned
  actual_size,      \* per thread, the size verify_download returned
  destination,      \* per thread, the destination move_to_series_directory chose
  mpc,              \* position of the main thread
  started,          \* number of worker threads started
  running,          \* self.running
  active_downloads, \* self.active_downloads
  valid_links,      \* what read_links returned last
  display,          \* the display thread: "off", "on", "done", "dead"
  orig,             \* content of the link list when the run began
  pre,              \* content of the link list when the last direct call began
  calls,            \* number of direct calls made
  route,            \* per line index, the status process_download will return
  outcome,          \* per line index, how process_download ended
  applied,          \* per line index, number of rewrites that returned True
  junk              \* number of display rounds that went into a file

fsvars == <<links, bak, stdout, fi_state, fi>>
callvars == <<pc, item, want, new_line, ulsret>>
pipevars ==
  <<expected, slot_status, queue, localfile, seriesfile, existing_size,
    actual_size, destination>>
mainvars == <<mpc, started, running, active_downloads, valid_links, display>>
histvars == <<orig, pre, calls, route, outcome, applied, junk>>
vars == <<fsvars, callvars, pipevars, mainvars, histvars>>

\* the process is running (daemon threads die with the main thread)
Alive == mpc \notin {"exited", "crashed", "interrupted"}

UlsPcs ==
  {"uls_read", "uls_input", "uls_unlink", "uls_rename", "uls_create",
   "uls_loop", "uls_unlink2"}

\* thread u is iterating its FileInput (the for loop holds the object)
Iterating(u) ==
  pc[u] \in {"uls_unlink", "uls_rename", "uls_create", "uls_loop", "uls_unlink2"}

World == [links |-> links, bak |-> bak, stdout |-> stdout, fi |-> fi]

\* ----------------------------------------------------- fileinput.nextfile
CloseRef(r, t) == IF r = Obj(t) THEN Closed ELSE r

FlushTo(f, t, buf) == IF f.st = "open" /\ f.w = t THEN Data(buf) ELSE f

\* nextfile(), first half: sys.stdout = _savestdout; _output.close() writes
\* the buffer to the file the output was created as (if it still has a name);
\* _file.close()
NextfileClose(W, t) ==
  LET o == W.fi[t]
      so == IF o.save # NoSave THEN o.save ELSE W.stdout
  IN IF o.out
     THEN [links |-> FlushTo(W.links, t, o.buf),
           bak |-> FlushTo(W.bak, t, o.buf),
           stdout |-> CloseRef(so, t),
           fi |-> [v \in Workers |->
                     IF v = t
                     THEN [FiNew EXCEPT !.bak = o.bak]
                     ELSE [W.fi[v] EXCEPT !.save = CloseRef(@, t)]]]
     ELSE [W EXCEPT !.stdout = so, !.fi[t] = [FiNew EXCEPT !.bak = o.bak]]

\* nextfile(), second half: os.unlink(_backupfilename), errors ignored
NextfileUnlink(W, t) ==
  IF W.fi[t].bak
  THEN [W EXCEPT !.bak = Absent, !.fi[t].bak = FALSE]
  ELSE W

\* FileInput.__del__ -> close() -> nextfile(), when the last reference to
\* an abandoned object goes away
Collect(W, t) == NextfileUnlink(NextfileClose(W, t), t)

SetWorld(W) ==
  /\ links' = W.links
  /\ bak' = W.bak
  /\ stdout' = W.stdout
  /\ fi' = W.fi

\* --------------------------------------------------- update_line_status
\* where update_line_status returns to: a direct caller, or the place in
\* process_download that called it (line 646 goes on to delete the file)
AfterUls(t) ==
  IF mpc = "api" THEN "api_idle"
  ELSE IF route[item[t]] = "VERIFICATION_FAILED" THEN "p_unlink"
  ELSE "p_return"

\* an exception leaves update_line_status and process_download and arrives
\* at the handler of download_worker (line 693)
Raise(t) ==
  /\ pc' = [pc EXCEPT ![t] = "w_except"]
  /\ want' = [want EXCEPT ![t] = << >>]
  /\ new_line' = [new_line EXCEPT ![t] = << >>]

\* update_line_status returns val to its caller
UlsReturn(t, val) ==
  /\ pc' = [pc EXCEPT ![t] = AfterUls(t)]
  /\ want' = [want EXCEPT ![t] = << >>]
  /\ new_line' = [new_line EXCEPT ![t] = << >>]
  /\ ulsret' = [ulsret EXCEPT ![t] = val]
  /\ applied' = IF val /\ item[t] \in DOMAIN applied
                THEN [applied EXCEPT ![item[t]] = @ + 1]
                ELSE applied

\* a read without the test of line 157: lines[line_number] raises
ULS_ReadUnchecked(t) ==
  /\ Alive
  /\ pc[t] = "uls_read"
  /\ UNCHANGED <<fsvars, item, pipevars, mainvars>>
  /\ UNCHANGED <<orig, pre, calls, route, outcome, junk>>
  /\ IF links.st = "absent"
     THEN Raise(t) /\ UNCHANGED <<ulsret, applied>>
     ELSE LET lines == ReadLines(links.c)
          IN IF item[t] >= Len(lines)
             THEN Raise(t) /\ UNCHANGED <<ulsret, applied>>
             ELSE /\ new_line' =
                       [new_line EXCEPT
                          ![t] = NewLine(RStripNL(lines[item[t] + 1]), want[t])]
                  /\ pc' = [pc EXCEPT ![t] = "uls_input"]
                  /\ UNCHANGED <<want, ulsret, applied>>

\* lines 154-171: read the file, find the line, prepare new_line
ULS_Read(t) ==
  /\ Alive
  /\ pc[t] = "uls_read"
  /\ UNCHANGED <<fsvars, item, pipevars, mainvars>>
  /\ UNCHANGED <<orig, pre, calls, route, outcome, junk>>
  /\ IF links.st = "absent"
     THEN Raise(t) /\ UNCHANGED <<ulsret, applied>>
     ELSE LET lines == ReadLines(links.c)
          IN IF item[t] >= Len(lines)
             THEN UlsReturn(t, FALSE)
             ELSE /\ new_line' =
                       [new_line EXCEPT
                          ![t] = NewLine(RStripNL(lines[item[t] + 1]), want[t])]
                  /\ pc' = [pc EXCEPT ![t] = "uls_input"]
                  /\ UNCHANGED <<want, ulsret, applied>>

\* line 175, fileinput.input(...): refuses while the module's current
\* FileInput has its file open; otherwise the new object becomes the
\* module's current one and the object it replaces, if abandoned, is closed
ULS_Input(t) ==
  /\ Alive
  /\ pc[t] = "uls_input"
  /\ UNCHANGED <<item, ulsret, pipevars, mainvars, histvars>>
  /\ IF fi_state # NoThread /\ fi[fi_state].file
     THEN Raise(t) /\ UNCHANGED fsvars
     ELSE LET W1 == IF fi_state # NoThread /\ ~Iterating(fi_state)
                    THEN Collect(World, fi_state)
                    ELSE World
          IN /\ SetWorld([W1 EXCEPT !.fi[t] = FiNew])
             /\ fi_state' = t
             /\ pc' = [pc EXCEPT ![t] = "uls_unlink"]
             /\ UNCHANGED <<want, new_line>>

\* first iteration, _readline: os.unlink(<name>.bak), errors ignored
ULS_Unlink(t) ==
  /\ Alive
  /\ pc[t] = "uls_unlink"
  /\ bak' = Absent
  /\ fi' = [fi EXCEPT ![t].bak = TRUE]
  /\ pc' = [pc EXCEPT ![t] = "uls_rename"]
  /\ UNCHANGED <<links, stdout, fi_state>>
  /\ UNCHANGED <<item, want, new_line, ulsret, pipevars, mainvars, histvars>>

\* os.rename(<name>, <name>.bak): OSError when <name> is not there
ULS_Rename(t) ==
  /\ Alive
  /\ pc[t] = "uls_rename"
  /\ UNCHANGED <<stdout, fi_state, fi>>
  /\ UNCHANGED <<item, ulsret, pipevars, mainvars, histvars>>
  /\ IF links.st = "absent"
     THEN Raise(t) /\ UNCHANGED <<links, bak>>
     ELSE /\ bak' = links
          /\ links' = Absent
          /\ pc' = [pc EXCEPT ![t] = "uls_create"]
          /\ UNCHANGED <<want, new_line>>

\* open(<name>.bak) for reading, create <name> for writing,
\* _savestdout = sys.stdout, sys.stdout = _output
ULS_Create(t) ==
  /\ Alive
  /\ pc[t] = "uls_create"
  /\ UNCHANGED <<bak, fi_state>>
  /\ UNCHANGED <<item, ulsret, pipevars, mainvars, histvars>>
  /\ IF bak.st = "absent"
     THEN Raise(t) /\ UNCHANGED <<links, stdout, fi>>
     ELSE /\ links' = Unflushed(t)
          /\ fi' = [fi EXCEPT ![t] =
                      [bak |-> TRUE, file |-> TRUE, out |-> TRUE, save |-> stdout,
                       inp |-> ReadLines(bak.c), cur |-> 0, buf |-> << >>]]
          /\ stdout' = Obj(t)
          /\ pc' = [pc EXCEPT ![t] = "uls_loop"]
          /\ UNCHANGED <<want, new_line>>

\* an iteration that prints new_line whatever the index
LineOutAnywhere(t, line) == new_line[t]

\* lines 177-181: what the iteration prints for the line it has read
LineOut(t, line) == IF fi[t].cur = item[t] THEN new_line[t] ELSE line

\* lines 175-181, one iteration: print the line, or new_line at the target
\* index, to whatever sys.stdout is now; at end of input, nextfile()
ULS_Loop(t) ==
  /\ Alive
  /\ pc[t] = "uls_loop"
  /\ UNCHANGED <<fi_state, item, ulsret, pipevars, mainvars, histvars>>
  /\ IF fi[t].inp = << >>
     THEN /\ SetWorld(NextfileClose(World, t))
          /\ pc' = [pc EXCEPT ![t] = "uls_unlink2"]
          /\ UNCHANGED <<want, new_line>>
     ELSE LET line == RStripNL(Head(fi[t].inp))
              text == LineOut(t, line)
              adv == [fi EXCEPT ![t].inp = Tail(@), ![t].cur = @ + 1]
          IN IF stdout.k = "closed"
             THEN Raise(t) /\ UNCHANGED <<links, bak, stdout, fi>>
             ELSE /\ fi' = IF stdout.k = "obj"
                           THEN [adv EXCEPT ![stdout.w].buf = @ \o PrintLine(text)]
                           ELSE adv
                  /\ UNCHANGED <<links, bak, stdout, pc, want, new_line>>

\* end of nextfile(): os.unlink(<name>.bak); line 183: return True
ULS_Unlink2(t) ==
  /\ Alive
  /\ pc[t] = "uls_unlink2"
  /\ SetWorld(NextfileUnlink(World, t))
  /\ UlsReturn(t, TRUE)
  /\ UNCHANGED <<fi_state, item, pipevars, mainvars>>
  /\ UNCHANGED <<orig, pre, calls, route, outcome, junk>>

UlsStep(t) ==
  \/ ULS_Read(t)
  \/ ULS_Input(t)
  \/ ULS_Unlink(t)
  \/ ULS_Rename(t)
  \/ ULS_Create(t)
  \/ ULS_Loop(t)
  \/ ULS_Unlink2(t)

\* ------------------------------------------------------------ environment
\* what the outside world answers: the local file found at the first look,
\* the three size samples of the activity check, the size probe, how the
\* wget process ends together with the file it leaves, whether shutil.move
\* works
\* the answers the run is explored with: no local file or a full one; a file
\* that is not there or one that grows between the first two samples; a wget
\* that ends well and leaves an empty or a full file, or fails and leaves none
RunEnv ==
  [local |-> {NoLocal, Sized(MaxSize)},
   samples |-> {<<NoLocal, NoLocal, NoLocal>>,
                <<Sized(0), Sized(MaxSize), Sized(MaxSize)>>},
   probe |-> Probes,
   ends |-> {<<"ok", Sized(0)>>, <<"ok", Sized(MaxSize)>>, <<"fail", NoLocal>>},
   mvok |-> BOOLEAN]

\* every answer: any local file, any three samples of a file (there or
\* not, growing, shrinking or still), any probe, a wget that ends well and
\* leaves any file, or fails and leaves none or a part, or cannot be started
FullEnv ==
  [local |-> LocalFiles,
   samples |-> LocalFiles \X LocalFiles \X LocalFiles,
   probe |-> Probes,
   ends |-> {<<"ok", f>> : f \in LocalFiles}
              \cup {<<"fail", NoLocal>>, <<"fail", Sized(0)>>, <<"error", NoLocal>>},
   mvok |-> BOOLEAN]

\* a quiet world: nothing in the cwd, no size from the server, transfers
\* that end well, moves that work
PoolEnv ==
  [local |-> {NoLocal},
   samples |-> {<<NoLocal, NoLocal, NoLocal>>},
   probe |-> {Unknown},
   ends |-> {<<"ok", Sized(MaxSize)>>},
   mvok |-> {TRUE}]

\* a quiet world in which a transfer ends well, or is cut off and leaves a
\* part of the file
SignalEnv ==
  [local |-> {NoLocal},
   samples |-> {<<NoLocal, NoLocal, NoLocal>>},
   probe |-> {Unknown},
   ends |-> {<<"ok", Sized(MaxSize)>>, <<"fail", Sized(0)>>},
   mvok |-> {TRUE}]

\* a world for entries that share a file name: nothing in the cwd, no size
\* from the server, transfers that end well and leave an empty or a full
\* file, moves that work
SameEnv ==
  [local |-> {NoLocal},
   samples |-> {<<NoLocal, NoLocal, NoLocal>>},
   probe |-> {Unknown},
   ends |-> {<<"ok", Sized(0)>>, <<"ok", Sized(MaxSize)>>},
   mvok |-> {TRUE}]

\* a world out of reach: nothing in the cwd, no size from the server,
\* transfers that fail and leave nothing
ClashEnv ==
  [local |-> {NoLocal},
   samples |-> {<<NoLocal, NoLocal, NoLocal>>},
   probe |-> {Unknown},
   ends |-> {<<"fail", NoLocal>>},
   mvok |-> {TRUE}]

\* --------------------------------------------------------- process_download
\* lines 185-218 and 549-550: the file name an entry's URL stands for, the
\* last component of the URL
FileName(l) == IF Find(l, HTTPS) > 0 THEN l[Len(l)] ELSE ""

\* entries whose URLs end in the same name share cwd/<name> and
\* series_dir/<name>: the files of a name are kept under the first line
\* index that bears it
Key(i) ==
  LET ls == StripLines(orig)
  IN IF i >= Len(ls) \/ FileName(ls[i + 1]) = "" THEN i
     ELSE CHOOSE j \in 0 .. i :
            /\ FileName(ls[j + 1]) = FileName(ls[i + 1])
            /\ \A m \in 1 .. j : FileName(ls[m]) # FileName(ls[i + 1])

\* process_download calls update_line_status(line_num, s) and will return res
Call(t, s, res) ==
  /\ pc' = [pc EXCEPT ![t] = "uls_read"]
  /\ want' = [want EXCEPT ![t] = s]
  /\ route' = [route EXCEPT ![item[t]] = res]

\* a check that takes two samples only
CheckActiveTwice(s) ==
  IF ~s[1].ex THEN [active |-> FALSE, last |-> s[1]]
  ELSE IF ~s[2].ex THEN [active |-> FALSE, last |-> s[2]]
  ELSE [active |-> s[1].n # s[2].n, last |-> s[2]]

\* lines 278-316: (is_active, the last sample taken)
CheckActive(s) ==
  IF ~s[1].ex THEN [active |-> FALSE, last |-> s[1]]
  ELSE IF ~s[2].ex THEN [active |-> FALSE, last |-> s[2]]
  ELSE IF s[1].n # s[2].n THEN [active |-> TRUE, last |-> s[2]]
  ELSE IF ~s[3].ex THEN [active |-> FALSE, last |-> s[3]]
  ELSE IF s[2].n # s[3].n THEN [active |-> TRUE, last |-> s[3]]
  ELSE [active |-> FALSE, last |-> s[3]]

\* a verification that passes only a file of the known expected size
VerifyDownloadStrict(local, expected_size) ==
  IF ~local.ex THEN [verified |-> FALSE, actual |-> 0]
  ELSE [verified |-> expected_size.known /\ local.n = expected_size.n,
        actual |-> local.n]

\* lines 479-511: (verified, actual_size); "if expected_size:" is false for
\* None and for 0
VerifyDownload(local, expected_size) ==
  IF ~local.ex THEN [verified |-> FALSE, actual |-> 0]
  ELSE IF expected_size.known /\ expected_size.n # 0
       THEN [verified |-> local.n = expected_size.n, actual |-> local.n]
       ELSE [verified |-> TRUE, actual |-> local.n]

\* lines 556-575 and 589-609: the existing-file check and what it decides
P_Exist(w, env) ==
  /\ Alive
  /\ pc[w] = "p_exist"
  /\ UNCHANGED <<fsvars, item, new_line, ulsret, slot_status, queue, mainvars>>
  /\ UNCHANGED <<seriesfile, actual_size, destination>>
  /\ UNCHANGED <<orig, pre, calls, outcome, applied, junk>>
  /\ \E lf \in env.local, ex \in env.probe :
       /\ localfile' = [localfile EXCEPT ![Key(item[w])] = lf]
       /\ existing_size' = [existing_size EXCEPT ![w] = lf]
       /\ IF ~lf.ex
          THEN /\ pc' = [pc EXCEPT ![w] = "p_active"]
               /\ UNCHANGED <<want, route, expected>>
          ELSE /\ expected' = [expected EXCEPT ![w] = ex]
               /\ IF ~ex.known
                  THEN Call(w, S_FailedUnknown, "NO_EXPECTED_SIZE")
                  ELSE IF lf.n # ex.n
                  THEN Call(w, S_FailedMismatch, "SIZE_MISMATCH")
                  ELSE /\ pc' = [pc EXCEPT ![w] = "p_move"]
                       /\ UNCHANGED <<want, route>>

\* lines 611-621: the activity check, then the size probe of the fresh path
P_Active(w, env) ==
  /\ Alive
  /\ pc[w] = "p_active"
  /\ UNCHANGED <<fsvars, item, want, new_line, ulsret, queue, seriesfile, mainvars>>
  /\ UNCHANGED <<existing_size, actual_size, destination>>
  /\ UNCHANGED <<orig, pre, calls, outcome, applied, junk>>
  /\ \E smp \in env.samples, ex \in env.probe :
       LET r == CheckActive(smp)
       IN /\ localfile' = [localfile EXCEPT ![Key(item[w])] = r.last]
          /\ IF r.active
             THEN /\ slot_status' = [slot_status EXCEPT ![w] = "ACTIVE"]
                  /\ route' = [route EXCEPT ![item[w]] = "ACTIVE"]
                  /\ pc' = [pc EXCEPT ![w] = "p_return"]
                  /\ UNCHANGED expected
             ELSE /\ expected' = [expected EXCEPT ![w] = ex]
                  /\ pc' = [pc EXCEPT ![w] = "p_start"]
                  /\ UNCHANGED <<slot_status, route>>

\* lines 623-629: the seconds a worker sleeps at "p_start", chosen by its
\* slot id alone (slot_start_times, line 54, is never read)
Stagger(slot_id) ==
  IF slot_id = 0 THEN 5
  ELSE IF slot_id = 1 THEN 10
  ELSE IF slot_id = 2 THEN 15
  ELSE 0

\* a start that writes its text to the first slot whoever the worker is
P_StartFirstSlot(w) ==
  /\ Alive
  /\ pc[w] = "p_start"
  /\ slot_status' = [slot_status EXCEPT ![0] = "loading"]
  /\ pc' = [pc EXCEPT ![w] = "p_wget"]
  /\ UNCHANGED <<fsvars, item, want, new_line, ulsret, mainvars, histvars>>
  /\ UNCHANGED <<expected, queue, localfile, seriesfile>>
  /\ UNCHANGED <<existing_size, actual_size, destination>>

\* lines 623-633 and 353-395: the stagger sleep is over, wget is started;
\* "loading" stands for the texts "[ N%]" that follow one another (400-451)
P_Start(w) ==
  /\ Alive
  /\ pc[w] = "p_start"
  /\ slot_status' = [slot_status EXCEPT ![w] = "loading"]
  /\ pc' = [pc EXCEPT ![w] = "p_wget"]
  /\ UNCHANGED <<fsvars, item, want, new_line, ulsret, mainvars, histvars>>
  /\ UNCHANGED <<expected, queue, localfile, seriesfile>>
  /\ UNCHANGED <<existing_size, actual_size, destination>>

\* a transfer whose return code is not looked at
P_WgetAnyCode(w, env) ==
  /\ Alive
  /\ pc[w] = "p_wget"
  /\ UNCHANGED <<fsvars, item, new_line, ulsret, expected, queue, seriesfile, mainvars>>
  /\ UNCHANGED <<existing_size, actual_size, destination>>
  /\ UNCHANGED <<orig, pre, calls, outcome, applied, junk>>
  /\ \E end \in env.ends :
       /\ localfile' = [localfile EXCEPT ![Key(item[w])] = end[2]]
       /\ IF end[2].ex
          THEN /\ slot_status' = [slot_status EXCEPT ![w] = "FAILED"]
               /\ pc' = [pc EXCEPT ![w] = "p_verify"]
               /\ UNCHANGED <<want, route>>
          ELSE /\ slot_status' =
                    [slot_status EXCEPT ![w] = IF end[1] = "error" THEN "ERROR" ELSE "FAILED"]
               /\ Call(w, S_Failed, "DOWNLOAD_FAILED")

\* lines 453-477 and 635-639: the transfer ends
P_Wget(w, env) ==
  /\ Alive
  /\ pc[w] = "p_wget"
  /\ UNCHANGED <<fsvars, item, new_line, ulsret, expected, queue, seriesfile, mainvars>>
  /\ UNCHANGED <<existing_size, actual_size, destination>>
  /\ UNCHANGED <<orig, pre, calls, outcome, applied, junk>>
  /\ \E end \in env.ends :
       /\ localfile' = [localfile EXCEPT ![Key(item[w])] = end[2]]
       /\ IF end[1] = "ok" /\ end[2].ex
          THEN /\ slot_status' = [slot_status EXCEPT ![w] = "COMPLETE"]
               /\ pc' = [pc EXCEPT ![w] = "p_verify"]
               /\ UNCHANGED <<want, route>>
          ELSE /\ slot_status' =
                    [slot_status EXCEPT ![w] = IF end[1] = "error" THEN "ERROR" ELSE "FAILED"]
               /\ Call(w, S_Failed, "DOWNLOAD_FAILED")

\* lines 641-647: verification
P_Verify(w) ==
  /\ Alive
  /\ pc[w] = "p_verify"
  /\ UNCHANGED <<fsvars, item, new_line, ulsret, mainvars>>
  /\ UNCHANGED <<expected, slot_status, queue, localfile, seriesfile>>
  /\ UNCHANGED <<existing_size, destination>>
  /\ UNCHANGED <<orig, pre, calls, outcome, applied, junk>>
  /\ LET r == VerifyDownload(localfile[Key(item[w])], expected[w])
     IN /\ actual_size' = [actual_size EXCEPT ![w] = Sized(r.actual)]
        /\ IF r.verified
           THEN /\ pc' = [pc EXCEPT ![w] = "p_move"]
                /\ UNCHANGED <<want, route>>
           ELSE Call(w, S_Failed, "VERIFICATION_FAILED")

\* lines 648-654: delete the file that failed verification
P_Unlink(w) ==
  /\ Alive
  /\ pc[w] = "p_unlink"
  /\ localfile' = [localfile EXCEPT ![Key(item[w])] = NoLocal]
  /\ pc' = [pc EXCEPT ![w] = "p_return"]
  /\ UNCHANGED <<fsvars, item, want, new_line, ulsret, mainvars, histvars>>
  /\ UNCHANGED <<expected, slot_status, queue, seriesfile>>
  /\ UNCHANGED <<existing_size, actual_size, destination>>

\* lines 520-531: the first of name, name_1, name_2, ... that does not exist
FreeName(dir) == CHOOSE k \in DOMAIN dir : ~dir[k].ex /\ \A m \in 0 .. (k - 1) : dir[m].ex

\* a process_download that marks every failed move the way line 661 does
MoveFailedPlain(w) == Call(w, S_Failed, "MOVE_FAILED")

\* what process_download does when move_to_series_directory returned None:
\* lines 585-588 for a file that existed, lines 659-663 for a fresh one
MoveFailed(w) ==
  Call(w, IF existing_size[w].ex THEN S_FailedMove ELSE S_Failed, "MOVE_FAILED")

\* lines 513-531: move_to_series_directory until it has its destination
P_Move(w) ==
  /\ Alive
  /\ pc[w] = "p_move"
  /\ UNCHANGED <<fsvars, item, new_line, ulsret, mainvars>>
  /\ UNCHANGED <<expected, slot_status, queue, localfile, seriesfile>>
  /\ UNCHANGED <<existing_size, actual_size>>
  /\ UNCHANGED <<orig, pre, calls, outcome, applied, junk>>
  /\ IF localfile[Key(item[w])].ex
     THEN /\ destination' =
               [destination EXCEPT ![w] = FreeName(seriesfile[Key(item[w])])]
          /\ pc' = [pc EXCEPT ![w] = "p_shmove"]
          /\ UNCHANGED <<want, route>>
     ELSE /\ MoveFailed(w)
          /\ UNCHANGED destination

\* lines 533-540: shutil.move, which replaces a file that is at the
\* destination; then lines 578-588 or 658-668
P_ShutilMove(w, env) ==
  /\ Alive
  /\ pc[w] = "p_shmove"
  /\ UNCHANGED <<fsvars, item, new_line, ulsret, mainvars>>
  /\ UNCHANGED <<expected, slot_status, queue>>
  /\ UNCHANGED <<existing_size, actual_size, destination>>
  /\ UNCHANGED <<orig, pre, calls, outcome, applied, junk>>
  /\ \E ok \in env.mvok :
       LET f == Key(item[w])
       IN IF ok /\ localfile[f].ex
          THEN /\ seriesfile' =
                    [seriesfile EXCEPT ![f][destination[w]] = localfile[f]]
               /\ localfile' = [localfile EXCEPT ![f] = NoLocal]
               /\ IF existing_size[w].ex
                  THEN Call(w, S_CompleteExisted, "ALREADY_EXISTED")
                  ELSE Call(w, S_Complete, "COMPLETE")
          ELSE /\ UNCHANGED <<localfile, seriesfile>>
               /\ MoveFailed(w)

\* the locals of a finished call of process_download are gone
Forget(w) ==
  /\ item' = [item EXCEPT ![w] = 0]
  /\ ulsret' = [ulsret EXCEPT ![w] = FALSE]
  /\ expected' = [expected EXCEPT ![w] = Unknown]
  /\ existing_size' = [existing_size EXCEPT ![w] = NoLocal]
  /\ actual_size' = [actual_size EXCEPT ![w] = NoLocal]
  /\ destination' = [destination EXCEPT ![w] = 0]

\* process_download returns (line 583 on the way); line 685: task_done()
P_Return(w) ==
  /\ Alive
  /\ pc[w] = "p_return"
  /\ outcome' = [outcome EXCEPT ![item[w]] = route[item[w]]]
  /\ slot_status' = IF route[item[w]] = "ALREADY_EXISTED"
                    THEN [slot_status EXCEPT ![w] = "EXISTED"]
                    ELSE slot_status
  /\ pc' = [pc EXCEPT ![w] = "w_get"]
  /\ Forget(w)
  /\ UNCHANGED <<fsvars, want, new_line, mainvars>>
  /\ UNCHANGED <<queue, localfile, seriesfile>>
  /\ UNCHANGED <<orig, pre, calls, route, applied, junk>>

\* ---------------------------------------------------------- download_worker
\* line 676: the value a worker takes as the order to stop; the entries of
\* the queue are line numbers, which are not negative
None == 0 - 1

\* lines 672-692: take the next entry, leave on a None, or leave when the
\* pull times out and nothing is outstanding
W_Get(w) ==
  /\ Alive
  /\ pc[w] = "w_get"
  /\ UNCHANGED <<fsvars, want, new_line, ulsret, mainvars, histvars>>
  /\ UNCHANGED <<expected, slot_status, localfile, seriesfile>>
  /\ UNCHANGED <<existing_size, actual_size, destination>>
  /\ IF queue # << >> /\ Head(queue) = None
     THEN /\ queue' = Tail(queue)
          /\ pc' = [pc EXCEPT ![w] = "w_done"]
          /\ UNCHANGED item
     ELSE IF queue # << >>
     THEN /\ item' = [item EXCEPT ![w] = Head(queue)]
          /\ queue' = Tail(queue)
          /\ pc' = [pc EXCEPT ![w] = "p_exist"]
     ELSE /\ pc' = [pc EXCEPT ![w] = IF active_downloads = 0 THEN "w_done" ELSE "w_get"]
          /\ UNCHANGED <<item, queue>>

\* a handler that ends the worker
W_ExceptFatal(w) ==
  /\ Alive
  /\ pc[w] = "w_except"
  /\ outcome' = [outcome EXCEPT ![item[w]] = "EXCEPTION"]
  /\ pc' = [pc EXCEPT ![w] = "w_done"]
  /\ Forget(w)
  /\ UNCHANGED <<fsvars, want, new_line, mainvars>>
  /\ UNCHANGED <<slot_status, queue, localfile, seriesfile>>
  /\ UNCHANGED <<orig, pre, calls, route, applied, junk>>

\* lines 693-695: the handler logs and calls task_done(); the frames of the
\* failed call are released, and with them its FileInput unless the
\* fileinput module still holds it
W_Except(w) ==
  /\ Alive
  /\ pc[w] = "w_except"
  /\ IF fi_state # w
     THEN SetWorld(Collect(World, w))
     ELSE UNCHANGED <<links, bak, stdout, fi>>
  /\ outcome' = [outcome EXCEPT ![item[w]] = "EXCEPTION"]
  /\ pc' = [pc EXCEPT ![w] = "w_get"]
  /\ Forget(w)
  /\ UNCHANGED <<fi_state, want, new_line, mainvars>>
  /\ UNCHANGED <<slot_status, queue, localfile, seriesfile>>
  /\ UNCHANGED <<orig, pre, calls, route, applied, junk>>

\* a worker holds an entry: it has dequeued it and its pipeline has not ended
InFlight(w) == pc[w] \notin {"w_off", "w_get", "w_done", "api_idle"}

\* -------------------------------------------------------------- main thread
\* lines 129-134: copy the link list to the backup unless one exists
CreateBackup == bak' = IF bak.st = "absent" THEN links ELSE bak

M_Backup ==
  /\ mpc = "m_backup"
  /\ CreateBackup
  /\ mpc' = "m_read"
  /\ UNCHANGED <<links, stdout, fi_state, fi, callvars, pipevars, histvars>>
  /\ UNCHANGED <<started, running, active_downloads, valid_links, display>>

\* lines 699-704: read_links; nothing pending ends process_downloads
M_Read ==
  /\ mpc = "m_read"
  /\ valid_links' = Pending(links.c)
  /\ mpc' = IF valid_links' = << >> THEN "m_hook" ELSE "m_enqueue"
  /\ UNCHANGED <<fsvars, callvars, pipevars, histvars>>
  /\ UNCHANGED <<started, running, active_downloads, display>>

\* lines 709-719: start the display thread, fill the queue
M_Enqueue ==
  /\ mpc = "m_enqueue"
  /\ display' = "on"
  /\ queue' = queue \o valid_links
  /\ mpc' = "m_workers"
  /\ UNCHANGED <<fsvars, callvars, histvars>>
  /\ UNCHANGED <<expected, slot_status, localfile, seriesfile>>
  /\ UNCHANGED <<existing_size, actual_size, destination>>
  /\ UNCHANGED <<started, running, active_downloads, valid_links>>

\* a loop that goes round once more than max_concurrent times
M_StartWorkerOnceMore ==
  /\ mpc = "m_workers"
  /\ IF started < max_concurrent + 1
     THEN /\ pc' = [pc EXCEPT ![started] = "w_get"]
          /\ started' = started + 1
          /\ UNCHANGED mpc
     ELSE /\ mpc' = "m_monitor"
          /\ UNCHANGED <<pc, started>>
  /\ UNCHANGED <<fsvars, item, want, new_line, ulsret, pipevars, histvars>>
  /\ UNCHANGED <<running, active_downloads, valid_links, display>>

\* lines 721-727: start the next worker thread
M_StartWorker ==
  /\ mpc = "m_workers"
  /\ IF started < max_concurrent
     THEN /\ pc' = [pc EXCEPT ![started] = "w_get"]
          /\ started' = started + 1
          /\ UNCHANGED mpc
     ELSE /\ mpc' = "m_monitor"
          /\ UNCHANGED <<pc, started>>
  /\ UNCHANGED <<fsvars, item, want, new_line, ulsret, pipevars, histvars>>
  /\ UNCHANGED <<running, active_downloads, valid_links, display>>

\* lines 729-747: leave the monitor loop when nothing is outstanding, stop
\* the display, join every thread with its timeout
M_Monitor ==
  /\ mpc = "m_monitor"
  /\ active_downloads = 0
  /\ queue = << >>
  /\ running' = FALSE
  /\ mpc' = "m_final"
  /\ UNCHANGED <<fsvars, callvars, pipevars, histvars>>
  /\ UNCHANGED <<started, active_downloads, valid_links, display>>

\* lines 749-752, 777-791 and the return of main(): the final message,
\* printed to sys.stdout, the post-run hook, the end of the process (which
\* takes the daemon threads with it)
M_Final ==
  /\ mpc = "m_final"
  /\ mpc' = IF stdout.k = "closed" THEN "crashed" ELSE "exited"
  /\ fi' = IF stdout.k = "obj"
           THEN [fi EXCEPT ![stdout.w].buf = @ \o <<"All downloads completed!", NL>>]
           ELSE fi
  /\ UNCHANGED <<links, bak, stdout, fi_state, callvars, pipevars, histvars>>
  /\ UNCHANGED <<started, running, active_downloads, valid_links, display>>

\* lines 702-704, 777-791 and the return of main(): nothing was pending
M_Exit ==
  /\ mpc = "m_hook"
  /\ mpc' = "exited"
  /\ UNCHANGED <<fsvars, callvars, pipevars, histvars>>
  /\ UNCHANGED <<started, running, active_downloads, valid_links, display>>

\* lines 21-29 and 793-795: signal_handler, installed before anything else
\* and run by the main thread wherever it is: two prints to sys.stdout, then
\* sys.exit(0), which nothing catches; the interpreter exits and the daemon
\* threads (lines 711 and 724) end with it
M_Signal ==
  /\ Alive
  /\ mpc' = IF stdout.k = "closed" THEN "crashed" ELSE "interrupted"
  /\ fi' = IF stdout.k = "obj"
           THEN [fi EXCEPT ![stdout.w].buf =
                   @ \o <<"Interrupted! Downloads will continue in background.", NL>>]
           ELSE fi
  /\ UNCHANGED <<links, bak, stdout, fi_state, callvars, pipevars, histvars>>
  /\ UNCHANGED <<started, running, active_downloads, valid_links, display>>

\* lines 386-394: the wget started by a worker is a process of its own; once
\* the interpreter is gone it ends by itself or by the signal, with nobody
\* left to read its output or its return code
Wget_Orphan(w, env) ==
  /\ ~Alive
  /\ pc[w] = "p_wget"
  /\ \E end \in env.ends :
       localfile' = [localfile EXCEPT ![Key(item[w])] = end[2]]
  /\ pc' = [pc EXCEPT ![w] = "w_orphan"]
  /\ UNCHANGED <<fsvars, item, want, new_line, ulsret, mainvars, histvars>>
  /\ UNCHANGED <<expected, slot_status, queue, seriesfile>>
  /\ UNCHANGED <<existing_size, actual_size, destination>>

\* ----------------------------------------------------------- display thread
\* a display loop that does not look at running
D_RenderForever ==
  /\ Alive
  /\ display = "on"
  /\ UNCHANGED <<links, bak, stdout, fi_state, callvars, pipevars>>
  /\ UNCHANGED <<mpc, started, running, active_downloads, valid_links>>
  /\ UNCHANGED <<orig, pre, calls, route, outcome, applied>>
  /\ IF stdout.k = "closed"
     THEN display' = "dead" /\ UNCHANGED <<fi, junk>>
     ELSE IF stdout.k = "obj" /\ junk < MaxJunk
     THEN /\ fi' = [fi EXCEPT ![stdout.w].buf = @ \o <<"Download Progress:", NL>>]
          /\ junk' = junk + 1
          /\ UNCHANGED display
     ELSE UNCHANGED <<display, fi, junk>>

\* lines 323-338: one round of display_progress; its text goes to sys.stdout
D_Render ==
  /\ Alive
  /\ display = "on"
  /\ UNCHANGED <<links, bak, stdout, fi_state, callvars, pipevars>>
  /\ UNCHANGED <<mpc, started, running, active_downloads, valid_links>>
  /\ UNCHANGED <<orig, pre, calls, route, outcome, applied>>
  /\ IF ~running
     THEN display' = "done" /\ UNCHANGED <<fi, junk>>
     ELSE IF stdout.k = "closed"
     THEN display' = "dead" /\ UNCHANGED <<fi, junk>>
     ELSE IF stdout.k = "obj" /\ junk < MaxJunk
     THEN /\ fi' = [fi EXCEPT ![stdout.w].buf = @ \o <<"Download Progress:", NL>>]
          /\ junk' = junk + 1
          /\ UNCHANGED display
     ELSE UNCHANGED <<display, fi, junk>>

\* ------------------------------------------------- direct calls of the store
StoreStatuses == {S_Complete, S_Failed}

\* a caller (thread t) calls update_line_status(i, s)
Api_Update(t) ==
  /\ mpc = "api"
  /\ pc[t] = "api_idle"
  /\ calls < MaxCalls
  /\ \E i \in 0 .. MaxLines, s \in StoreStatuses :
       /\ item' = [item EXCEPT ![t] = i]
       /\ want' = [want EXCEPT ![t] = s]
       /\ pre' = [c |-> links.c, s |-> s]
  /\ pc' = [pc EXCEPT ![t] = "uls_read"]
  /\ calls' = calls + 1
  /\ UNCHANGED <<fsvars, new_line, ulsret, pipevars, mainvars>>
  /\ UNCHANGED <<orig, route, outcome, applied, junk>>

\* a caller calls read_links()
Api_Read(t) ==
  /\ mpc = "api"
  /\ pc[t] = "api_idle"
  /\ valid_links' = Pending(links.c)
  /\ UNCHANGED <<fsvars, callvars, pipevars, histvars>>
  /\ UNCHANGED <<mpc, started, running, active_downloads, display>>

\* a caller calls create_backup()
Api_Backup(t) ==
  /\ mpc = "api"
  /\ pc[t] = "api_idle"
  /\ CreateBackup
  /\ UNCHANGED <<links, stdout, fi_state, fi, callvars, pipevars, mainvars, histvars>>

\* ------------------------------------------------------------ initial states
UrlNames == <<"a", "b", "c", "d", "e", "f", "g", "h">>

\* the kinds of line a link list holds
LineOf(kind, i) ==
  CASE kind = "pending" -> <<HTTPS, UrlNames[i]>>
    [] kind = "indented" -> <<SP, HTTPS, UrlNames[i]>>
    [] kind = "complete" -> S_Complete \o <<SP, HTTPS, UrlNames[i]>>
    [] kind = "comment" -> <<HASH, SP, "note">>
    [] kind = "blank" -> << >>
    [] kind = "hashurl" -> <<HASH, HTTPS, UrlNames[i]>>
    [] kind = "twice" -> <<HASH, SP, "x", HTTPS, UrlNames[i], HTTPS, "z">>
    [] kind = "same" -> <<HTTPS, UrlNames[1]>>

RECURSIVE Concat(_)
Concat(ls) == IF ls = << >> THEN << >> ELSE Head(ls) \o Concat(Tail(ls))

\* the file whose lines are of the given kinds; last tells whether the last
\* line is terminated
FileOf(kinds, last) ==
  Concat([j \in 1 .. Len(kinds) |->
            IF j < Len(kinds) \/ last
            THEN PrintLine(LineOf(kinds[j], j))
            ELSE LineOf(kinds[j], j)])

KindSeqs(K, n) == UNION {[1 .. m -> K] : m \in 1 .. n}

RunKinds == {"pending", "complete"}
StoreKinds == {"pending", "indented", "complete", "comment", "blank", "hashurl", "twice"}

RunFiles == {FileOf(ks, TRUE) : ks \in KindSeqs(RunKinds, MaxLines)}
StoreFiles == {FileOf(ks, last) : ks \in KindSeqs(StoreKinds, MaxLines), last \in BOOLEAN}
PoolFiles ==
  {FileOf([j \in 1 .. PoolLines |-> "pending"], TRUE),
   FileOf([j \in 1 .. PoolLines |-> "complete"], TRUE)}
  \cup {FileOf(ks, TRUE) : ks \in KindSeqs(StoreKinds, MaxLines)}

\* lists of pending lines whose URLs all end in one file name
SameFiles == {FileOf([j \in 1 .. n |-> "same"], TRUE) : n \in 2 .. SameLines}

OldBackup == Data(<<HTTPS, "old", NL>>)

\* series_dir: for every name the files name, name_1, ... (0 stands for the
\* plain name); old is the file of the plain name left by an earlier run
SeriesDir(c, old) ==
  [i \in 0 .. (Len(ReadLines(c)) - 1) |->
     [k \in 0 .. Len(ReadLines(c)) |-> IF k = 0 THEN old ELSE NoLocal]]

Idx(c) == 0 .. (Len(ReadLines(c)) - 1)

InitCommon(c) ==
  /\ links = Data(c)
  /\ stdout = Tty
  /\ fi_state = NoThread
  /\ fi = [w \in Workers |-> FiNew]
  /\ item = [w \in Workers |-> 0]
  /\ want = [w \in Workers |-> << >>]
  /\ new_line = [w \in Workers |-> << >>]
  /\ ulsret = [w \in Workers |-> FALSE]
  /\ expected = [w \in Workers |-> Unknown]
  /\ slot_status = [w \in Workers |-> ""]
  /\ queue = << >>
  /\ localfile = [i \in Idx(c) |-> NoLocal]
  /\ existing_size = [w \in Workers |-> NoLocal]
  /\ actual_size = [w \in Workers |-> NoLocal]
  /\ destination = [w \in Workers |-> 0]
  /\ started = 0
  /\ running = TRUE
  /\ active_downloads = 0
  /\ valid_links = << >>
  /\ display = "off"
  /\ orig = c
  /\ pre = [c |-> c, s |-> << >>]
  /\ calls = 0
  /\ route = [i \in Idx(c) |-> "none"]
  /\ outcome = [i \in Idx(c) |-> "none"]
  /\ applied = [i \in Idx(c) |-> 0]
  /\ junk = 0

\* the state after DownloadManager.__init__ and validate_links_file
Init ==
  /\ \E c \in RunFiles : InitCommon(c) /\ seriesfile = SeriesDir(c, NoLocal)
  /\ bak = Absent
  /\ pc = [w \in Workers |-> "w_off"]
  /\ mpc = "m_backup"

InitPool ==
  /\ \E c \in PoolFiles : InitCommon(c) /\ seriesfile = SeriesDir(c, NoLocal)
  /\ bak = Absent
  /\ pc = [w \in Workers |-> "w_off"]
  /\ mpc = "m_backup"

\* a run over a list whose entries share a file name; the series directory
\* may hold a file of that name from an earlier run
InitSame ==
  /\ \E c \in SameFiles, old \in {NoLocal, Sized(MaxSize)} :
       InitCommon(c) /\ seriesfile = SeriesDir(c, old)
  /\ bak = Absent
  /\ pc = [w \in Workers |-> "w_off"]
  /\ mpc = "m_backup"

\* a run over a list of PoolLines pending entries
InitClash ==
  /\ \E c \in {FileOf([j \in 1 .. PoolLines |-> "pending"], TRUE)} :
       InitCommon(c) /\ seriesfile = SeriesDir(c, NoLocal)
  /\ bak = Absent
  /\ pc = [w \in Workers |-> "w_off"]
  /\ mpc = "m_backup"

\* a DownloadManager whose store methods are called directly by one thread
InitStore ==
  /\ \E c \in StoreFiles : InitCommon(c) /\ seriesfile = SeriesDir(c, NoLocal)
  /\ bak \in {Absent, OldBackup}
  /\ pc = [w \in Workers |-> IF w = 0 THEN "api_idle" ELSE "w_off"]
  /\ mpc = "api"

\* ------------------------------------------------------------ specifications
\* the steps a thread takes without waiting for anything: pulling from the
\* queue and the steps of process_download on the entry's own files
Hurried(v) ==
  pc[v] \in {"w_get", "p_exist", "p_active", "p_start", "p_verify", "p_unlink",
             "p_move", "p_shmove", "p_return", "w_except"}

\* the main thread waits in the monitor loop only, and its waits there (the
\* sleeps of lines 736-738) end while the workers are idle or in a transfer
MainTurn ==
  mpc = "m_monitor" => \A v \in Workers : ~Hurried(v) /\ pc[v] \notin UlsPcs

\* among the threads that can go on without waiting, the one started first runs
Turn(w) ==
  /\ mpc = "m_monitor"
  /\ \A v \in Workers : v < w => ~Hurried(v)
  /\ Hurried(w) \/ \A v \in Workers : ~Hurried(v)

\* the run, under the schedules in which a thread that need not wait goes on
\* before the others do, and the main thread, once out of the monitor loop,
\* goes to the end with no worker finishing in time for its join; transfers
\* and the steps of update_line_status interleave freely
Next ==
  \/ M_Backup /\ MainTurn
  \/ M_Read /\ MainTurn
  \/ M_Enqueue /\ MainTurn
  \/ M_StartWorker /\ MainTurn
  \/ M_Monitor /\ MainTurn
  \/ M_Final /\ MainTurn
  \/ M_Exit /\ MainTurn
  \/ \E w \in Workers : W_Get(w) /\ Turn(w)
  \/ \E w \in Workers : P_Exist(w, RunEnv) /\ Turn(w)
  \/ \E w \in Workers : P_Active(w, RunEnv) /\ Turn(w)
  \/ \E w \in Workers : P_Start(w) /\ Turn(w)
  \/ \E w \in Workers : P_Wget(w, RunEnv) /\ Turn(w)
  \/ \E w \in Workers : P_Verify(w) /\ Turn(w)
  \/ \E w \in Workers : P_Unlink(w) /\ Turn(w)
  \/ \E w \in Workers : P_Move(w) /\ Turn(w)
  \/ \E w \in Workers : P_ShutilMove(w, RunEnv) /\ Turn(w)
  \/ \E w \in Workers : P_Return(w) /\ Turn(w)
  \/ \E w \in Workers : W_Except(w) /\ Turn(w)
  \/ \E w \in Workers : ULS_Read(w) /\ Turn(w)
  \/ \E w \in Workers : ULS_Input(w) /\ Turn(w)
  \/ \E w \in Workers : ULS_Unlink(w) /\ Turn(w)
  \/ \E w \in Workers : ULS_Rename(w) /\ Turn(w)
  \/ \E w \in Workers : ULS_Create(w) /\ Turn(w)
  \/ \E w \in Workers : ULS_Loop(w) /\ Turn(w)
  \/ \E w \in Workers : ULS_Unlink2(w) /\ Turn(w)

Spec == Init /\ [][Next]_vars

\* the run in a quiet world, under the schedules of Spec in which one rewrite
\* at a time is under way; the display thread runs at any time outside the
\* loop of a rewrite
Alone(w) == \A v \in Workers \ {w} : pc[v] \notin UlsPcs \ {"uls_read"}

PoolTurn(w) == Turn(w) /\ Alone(w)

\* a round of the display that falls into a rewrite falls before the
\* rewrite has printed its first line
DisplayTurn == stdout.k = "obj" => fi[stdout.w].cur = 0

NextPool ==
  \/ M_Backup /\ MainTurn
  \/ M_Read /\ MainTurn
  \/ M_Enqueue /\ MainTurn
  \/ M_StartWorker /\ MainTurn
  \/ M_Monitor /\ MainTurn
  \/ M_Final /\ MainTurn
  \/ M_Exit /\ MainTurn
  \/ D_Render /\ DisplayTurn
  \/ \E w \in Workers : W_Get(w) /\ PoolTurn(w)
  \/ \E w \in Workers : P_Exist(w, PoolEnv) /\ PoolTurn(w)
  \/ \E w \in Workers : P_Active(w, PoolEnv) /\ PoolTurn(w)
  \/ \E w \in Workers : P_Start(w) /\ PoolTurn(w)
  \/ \E w \in Workers : P_Wget(w, PoolEnv) /\ PoolTurn(w)
  \/ \E w \in Workers : P_Verify(w) /\ PoolTurn(w)
  \/ \E w \in Workers : P_Move(w) /\ PoolTurn(w)
  \/ \E w \in Workers : P_ShutilMove(w, PoolEnv) /\ PoolTurn(w)
  \/ \E w \in Workers : P_Return(w) /\ PoolTurn(w)
  \/ \E w \in Workers : ULS_Read(w) /\ PoolTurn(w)
  \/ \E w \in Workers : ULS_Input(w) /\ PoolTurn(w)
  \/ \E w \in Workers : ULS_Unlink(w) /\ PoolTurn(w)
  \/ \E w \in Workers : ULS_Rename(w) /\ PoolTurn(w)
  \/ \E w \in Workers : ULS_Create(w) /\ PoolTurn(w)
  \/ \E w \in Workers : ULS_Loop(w) /\ PoolTurn(w)
  \/ \E w \in Workers : ULS_Unlink2(w) /\ PoolTurn(w)

SpecPool == InitPool /\ [][NextPool]_vars

\* the run in a world that gives every answer, under the schedules of Spec
\* in which one rewrite at a time is under way; the display thread renders
\* nothing
NextSerial ==
  \/ M_Backup /\ MainTurn
  \/ M_Read /\ MainTurn
  \/ M_Enqueue /\ MainTurn
  \/ M_StartWorker /\ MainTurn
  \/ M_Monitor /\ MainTurn
  \/ M_Final /\ MainTurn
  \/ M_Exit /\ MainTurn
  \/ \E w \in Workers : W_Get(w) /\ PoolTurn(w)
  \/ \E w \in Workers : P_Exist(w, FullEnv) /\ PoolTurn(w)
  \/ \E w \in Workers : P_Active(w, FullEnv) /\ PoolTurn(w)
  \/ \E w \in Workers : P_Start(w) /\ PoolTurn(w)
  \/ \E w \in Workers : P_Wget(w, FullEnv) /\ PoolTurn(w)
  \/ \E w \in Workers : P_Verify(w) /\ PoolTurn(w)
  \/ \E w \in Workers : P_Unlink(w) /\ PoolTurn(w)
  \/ \E w \in Workers : P_Move(w) /\ PoolTurn(w)
  \/ \E w \in Workers : P_ShutilMove(w, FullEnv) /\ PoolTurn(w)
  \/ \E w \in Workers : P_Return(w) /\ PoolTurn(w)
  \/ \E w \in Workers : ULS_Read(w) /\ PoolTurn(w)
  \/ \E w \in Workers : ULS_Input(w) /\ PoolTurn(w)
  \/ \E w \in Workers : ULS_Unlink(w) /\ PoolTurn(w)
  \/ \E w \in Workers : ULS_Rename(w) /\ PoolTurn(w)
  \/ \E w \in Workers : ULS_Create(w) /\ PoolTurn(w)
  \/ \E w \in Workers : ULS_Loop(w) /\ PoolTurn(w)
  \/ \E w \in Workers : ULS_Unlink2(w) /\ PoolTurn(w)

SpecSerial == Init /\ [][NextSerial]_vars

\* the run over a list of pending entries whose transfers fail, under the
\* schedules of Spec in which the transfers under way end in the order of
\* their slots and none ends during the loop of a rewrite, a worker reads
\* the link list and calls fileinput.input() while no rewrite is in its
\* loop or while the one that is has opened its file and printed nothing yet
ClashTurn(w) ==
  /\ Turn(w)
  /\ pc[w] = "p_wget" => \A v \in Workers : v < w => pc[v] # "p_wget"
  /\ \A v \in Workers \ {w} :
       Iterating(v) => \/ pc[w] \notin UlsPcs \cup {"p_wget"}
                       \/ /\ pc[w] \in {"uls_read", "uls_input"}
                          /\ fi[v].file
                          /\ fi[v].cur = 0

NextClash ==
  \/ M_Backup /\ MainTurn
  \/ M_Read /\ MainTurn
  \/ M_Enqueue /\ MainTurn
  \/ M_StartWorker /\ MainTurn
  \/ M_Monitor /\ MainTurn
  \/ M_Final /\ MainTurn
  \/ \E w \in Workers : W_Get(w) /\ ClashTurn(w)
  \/ \E w \in Workers : P_Exist(w, ClashEnv) /\ ClashTurn(w)
  \/ \E w \in Workers : P_Active(w, ClashEnv) /\ ClashTurn(w)
  \/ \E w \in Workers : P_Start(w) /\ ClashTurn(w)
  \/ \E w \in Workers : P_Wget(w, ClashEnv) /\ ClashTurn(w)
  \/ \E w \in Workers : P_Return(w) /\ ClashTurn(w)
  \/ \E w \in Workers : W_Except(w) /\ ClashTurn(w)
  \/ \E w \in Workers : ULS_Read(w) /\ ClashTurn(w)
  \/ \E w \in Workers : ULS_Input(w) /\ ClashTurn(w)
  \/ \E w \in Workers : ULS_Unlink(w) /\ ClashTurn(w)
  \/ \E w \in Workers : ULS_Rename(w) /\ ClashTurn(w)
  \/ \E w \in Workers : ULS_Create(w) /\ ClashTurn(w)
  \/ \E w \in Workers : ULS_Loop(w) /\ ClashTurn(w)
  \/ \E w \in Workers : ULS_Unlink2(w) /\ ClashTurn(w)

SpecClash == InitClash /\ [][NextClash]_vars

\* the run with a signal that may arrive at any moment, under the schedules
\* of SpecPool; every thread that can take a step takes one in the end, and
\* so does a wget left alone, while the signal need not arrive
NextSignal ==
  \/ M_Backup /\ MainTurn
  \/ M_Read /\ MainTurn
  \/ M_Enqueue /\ MainTurn
  \/ M_StartWorker /\ MainTurn
  \/ M_Monitor /\ MainTurn
  \/ M_Final /\ MainTurn
  \/ M_Exit /\ MainTurn
  \/ M_Signal
  \/ D_Render /\ DisplayTurn
  \/ \E w \in Workers : Wget_Orphan(w, SignalEnv)
  \/ \E w \in Workers : W_Get(w) /\ PoolTurn(w)
  \/ \E w \in Workers : P_Exist(w, SignalEnv) /\ PoolTurn(w)
  \/ \E w \in Workers : P_Active(w, SignalEnv) /\ PoolTurn(w)
  \/ \E w \in Workers : P_Start(w) /\ PoolTurn(w)
  \/ \E w \in Workers : P_Wget(w, SignalEnv) /\ PoolTurn(w)
  \/ \E w \in Workers : P_Verify(w) /\ PoolTurn(w)
  \/ \E w \in Workers : P_Move(w) /\ PoolTurn(w)
  \/ \E w \in Workers : P_ShutilMove(w, SignalEnv) /\ PoolTurn(w)
  \/ \E w \in Workers : P_Return(w) /\ PoolTurn(w)
  \/ \E w \in Workers : ULS_Read(w) /\ PoolTurn(w)
  \/ \E w \in Workers : ULS_Input(w) /\ PoolTurn(w)
  \/ \E w \in Workers : ULS_Unlink(w) /\ PoolTurn(w)
  \/ \E w \in Workers : ULS_Rename(w) /\ PoolTurn(w)
  \/ \E w \in Workers : ULS_Create(w) /\ PoolTurn(w)
  \/ \E w \in Workers : ULS_Loop(w) /\ PoolTurn(w)
  \/ \E w \in Workers : ULS_Unlink2(w) /\ PoolTurn(w)

\* the run in the world of SignalEnv, under the schedules of SpecPool and
\* those in which workers go on while the main thread is past its monitor
\* loop (in its sleeps and joins of lines 736-747), with the display loop
\* as in SpecPool; every thread that can take a step takes one in the end
LateTurn(w) ==
  /\ mpc \in {"m_monitor", "m_final"}
  /\ \A v \in Workers : v < w => ~Hurried(v)
  /\ Hurried(w) \/ \A v \in Workers : ~Hurried(v)
  /\ Alone(w)

NextFair ==
  \/ M_Backup /\ MainTurn
  \/ M_Read /\ MainTurn
  \/ M_Enqueue /\ MainTurn
  \/ M_StartWorker /\ MainTurn
  \/ M_Monitor /\ MainTurn
  \/ M_Final /\ MainTurn
  \/ M_Exit /\ MainTurn
  \/ D_Render /\ DisplayTurn
  \/ \E w \in Workers : W_Get(w) /\ LateTurn(w)
  \/ \E w \in Workers : P_Exist(w, SignalEnv) /\ LateTurn(w)
  \/ \E w \in Workers : P_Active(w, SignalEnv) /\ LateTurn(w)
  \/ \E w \in Workers : P_Start(w) /\ LateTurn(w)
  \/ \E w \in Workers : P_Wget(w, SignalEnv) /\ LateTurn(w)
  \/ \E w \in Workers : P_Verify(w) /\ LateTurn(w)
  \/ \E w \in Workers : P_Move(w) /\ LateTurn(w)
  \/ \E w \in Workers : P_ShutilMove(w, SignalEnv) /\ LateTurn(w)
  \/ \E w \in Workers : P_Return(w) /\ LateTurn(w)
  \/ \E w \in Workers : ULS_Read(w) /\ LateTurn(w)
  \/ \E w \in Workers : ULS_Input(w) /\ LateTurn(w)
  \/ \E w \in Workers : ULS_Unlink(w) /\ LateTurn(w)
  \/ \E w \in Workers : ULS_Rename(w) /\ LateTurn(w)
  \/ \E w \in Workers : ULS_Create(w) /\ LateTurn(w)
  \/ \E w \in Workers : ULS_Loop(w) /\ LateTurn(w)
  \/ \E w \in Workers : ULS_Unlink2(w) /\ LateTurn(w)

SpecFair == Init /\ [][NextFair]_vars /\ WF_vars(NextFair)

SpecSignal == Init /\ [][NextSignal]_vars /\ WF_vars(NextSignal /\ ~M_Signal)

\* the run over entries that share a file name: the starts and the ends of
\* the transfers (the stagger sleeps differ from slot to slot), the
\* verifications and the two steps of the relocations interleave freely;
\* every other step of a worker, a whole rewrite included, goes on at once
Urgent(v) ==
  pc[v] \in {"w_get", "p_exist", "p_active", "p_return"} \cup UlsPcs

SameTurn(w) ==
  /\ mpc = "m_monitor"
  /\ \A v \in Workers : v < w => ~Urgent(v)
  /\ Urgent(w) \/ \A v \in Workers : ~Urgent(v)

NextSame ==
  \/ M_Backup /\ MainTurn
  \/ M_Read /\ MainTurn
  \/ M_Enqueue /\ MainTurn
  \/ M_StartWorker /\ MainTurn
  \/ M_Monitor /\ MainTurn
  \/ M_Final /\ MainTurn
  \/ \E w \in Workers : W_Get(w) /\ SameTurn(w)
  \/ \E w \in Workers : P_Exist(w, SameEnv) /\ SameTurn(w)
  \/ \E w \in Workers : P_Active(w, SameEnv) /\ SameTurn(w)
  \/ \E w \in Workers : P_Start(w) /\ SameTurn(w)
  \/ \E w \in Workers : P_Wget(w, SameEnv) /\ SameTurn(w)
  \/ \E w \in Workers : P_Verify(w) /\ SameTurn(w)
  \/ \E w \in Workers : P_Move(w) /\ SameTurn(w)
  \/ \E w \in Workers : P_ShutilMove(w, SameEnv) /\ SameTurn(w)
  \/ \E w \in Workers : P_Return(w) /\ SameTurn(w)
  \/ \E w \in Workers : ULS_Read(w) /\ SameTurn(w)
  \/ \E w \in Workers : ULS_Input(w) /\ SameTurn(w)
  \/ \E w \in Workers : ULS_Unlink(w) /\ SameTurn(w)
  \/ \E w \in Workers : ULS_Rename(w) /\ SameTurn(w)
  \/ \E w \in Workers : ULS_Create(w) /\ SameTurn(w)
  \/ \E w \in Workers : ULS_Loop(w) /\ SameTurn(w)
  \/ \E w \in Workers : ULS_Unlink2(w) /\ SameTurn(w)

SpecSame == InitSame /\ [][NextSame]_vars

\* the store methods called one after the other by a single thread
NextStore == Api_Update(0) \/ Api_Read(0) \/ Api_Backup(0) \/ UlsStep(0)

SpecStore == InitStore /\ [][NextStore]_vars

\* ---------------------------------------------------------------- claims
\* C1: an entry of the fresh-download path whose verification failed has,
\* once its pipeline is over, no local file left, nothing moved to the series
\* directory, its rewrite applied, and (when no rewrite is under way) a
\* FAILED marker on its line
C1_VerificationFailure ==
  \A i \in DOMAIN route :
    (route[i] = "VERIFICATION_FAILED" /\ outcome[i] # "none") =>
      /\ ~localfile[Key(i)].ex
      /\ \A k \in DOMAIN seriesfile[Key(i)] : ~seriesfile[Key(i)][k].ex
      /\ applied[i] = 1
      /\ (links.st = "data" /\ \A w \in Workers : pc[w] \notin UlsPcs) =>
           LET ls == StripLines(links.c)
           IN i < Len(ls) /\ StartsWith(ls[i + 1], <<HASH, SP, "FAILED">>)

\* C2: while the worker that moved a file still holds the entry, the file in
\* the series directory has the probed expected size, or the entry went the
\* fresh-download path and no expected size was obtained
C2_MovedOnlyVerified ==
  \A w \in Workers :
    (pc[w] \in UlsPcs \cup {"p_return"}
       /\ route[item[w]] \in {"COMPLETE", "ALREADY_EXISTED"}) =>
      LET e == expected[w]
          f == seriesfile[Key(item[w])][destination[w]]
      IN /\ f.ex
         /\ \/ e.known /\ e.n = f.n
            \/ ~e.known /\ route[item[w]] = "COMPLETE"

\* C3: never more than max_concurrent transfers are in progress, never more
\* than max_concurrent workers are started, and once the workers are started
\* there are exactly max_concurrent of them
C3_TransferBound ==
  /\ Cardinality({w \in Workers : pc[w] = "p_wget"}) <= max_concurrent
  /\ started <= max_concurrent
  /\ Cardinality({w \in Workers : pc[w] # "w_off"}) = started
  /\ mpc \in {"m_monitor", "m_final"} => started = max_concurrent

\* C3, its case: every worker has a transfer in progress and entries are
\* still queued
C3_AllSlotsBusy ==
  /\ Cardinality({w \in Workers : pc[w] = "p_wget"}) = max_concurrent
  /\ queue # << >>

\* C4: when the process has ended, every entry read_links returned has been
\* through its pipeline and its line carries a COMPLETE or a FAILED marker
C4_AllTerminal ==
  mpc = "exited" =>
    \A k \in 1 .. Len(valid_links) :
      LET i == valid_links[k]
          ls == StripLines(links.c)
      IN /\ outcome[i] # "none"
         /\ links.st = "data"
         /\ i < Len(ls)
         /\ \/ StartsWith(ls[i + 1], <<HASH, SP, "COMPLETE">>)
            \/ StartsWith(ls[i + 1], <<HASH, SP, "FAILED">>)

\* C5: once process_downloads has left its monitor loop, no worker is
\* between dequeuing an entry and the end of that entry's pipeline
C5_NoPrematureCompletion ==
  mpc \in {"m_final", "exited", "crashed"} => \A w \in Workers : ~InFlight(w)

\* C6: when the rewrites of two entries at distinct lines have both ended
\* and no rewrite is under way, both were applied, the file is there with as
\* many lines as before, both lines carry their marker and every other line
\* is what it was
C6_SerializedRewrites ==
  \A i, j \in DOMAIN outcome :
    (/\ i # j
     /\ outcome[i] \notin {"none", "ACTIVE"}
     /\ outcome[j] \notin {"none", "ACTIVE"}
     /\ \A w \in Workers : pc[w] \notin UlsPcs) =>
      LET ls == StripLines(links.c)
          was == StripLines(orig)
      IN /\ applied[i] = 1
         /\ applied[j] = 1
         /\ links.st = "data"
         /\ Len(ls) = Len(was)
         /\ \A k \in 1 .. Len(was) :
              IF k - 1 \in {i, j}
              THEN StartsWith(ls[k], <<HASH, SP>>)
              ELSE ls[k] = was[k]

C8_RewriteOnce ==
  \A i \in DOMAIN applied :
    /\ applied[i] <= 1
    /\ outcome[i] # "none" => applied[i] = 1

\* C9: from create_backup on, the backup exists and holds the content the
\* link list had before any rewrite
C9_BackupKept == mpc # "m_backup" => bak = Data(orig)

\* C10: read_links returns, in order, the indexes of the lines whose first
\* token after leading white space is https://; a line as
\* update_line_status rewrites it is not pending; over a list whose lines
\* are all marked COMPLETE nothing is queued, no worker is started and no
\* line is rewritten
C10_PendingScan ==
  LET ls == ReadLines(orig)
      https(l) ==
        \E k \in 1 .. Len(l) :
          l[k] = HTTPS /\ \A m \in 1 .. (k - 1) : l[m] \in {SP, NL}
  IN /\ mpc \notin {"m_backup", "m_read"} =>
          /\ \A i \in 0 .. (Len(ls) - 1) :
               (\E k \in 1 .. Len(valid_links) : valid_links[k] = i)
                 <=> https(ls[i + 1])
          /\ \A k \in 1 .. (Len(valid_links) - 1) :
               valid_links[k] < valid_links[k + 1]
     /\ \A w \in Workers :
          new_line[w] # << >> => Pending(PrintLine(new_line[w])) = << >>
     /\ (\A j \in 1 .. Len(ls) : StartsWith(ls[j], <<HASH, SP, "COMPLETE">>)) =>
          /\ queue = << >>
          /\ started = 0
          /\ links = Data(orig)
          /\ \A i \in DOMAIN applied : applied[i] = 0

\* C10, its case: the run over a list of PoolLines lines, all marked
\* COMPLETE, has ended
C10_NothingPending ==
  /\ mpc = "exited"
  /\ Len(ReadLines(orig)) = PoolLines
  /\ \A j \in 1 .. PoolLines :
       StartsWith(ReadLines(orig)[j], <<HASH, SP, "COMPLETE">>)

\* C11: a worker that has just relocated the file it downloaded finds, at
\* the destination, a file of the size verify_download returned to it
C11_MovedAsVerified ==
  \A w \in Workers :
    (pc[w] = "uls_read" /\ want[w] = S_Complete) =>
      seriesfile[Key(item[w])][destination[w]] = actual_size[w]

\* C12: move_to_series_directory chooses the first of name, name_1,
\* name_2, ... that is free, and no step of any worker removes or changes a
\* file that is in the series directory
C12_NeverOverwrites ==
  [][
    /\ \A w \in Workers :
         (pc[w] = "p_move" /\ pc'[w] = "p_shmove") =>
           LET dir == seriesfile[Key(item[w])]
           IN /\ ~dir[destination'[w]].ex
              /\ \A m \in 0 .. (destination'[w] - 1) : dir[m].ex
    /\ \A i \in DOMAIN seriesfile :
         \A k \in DOMAIN seriesfile[i] :
           seriesfile[i][k].ex => seriesfile'[i][k] = seriesfile[i][k]
  ]_vars

C15_VerifyExact ==
  \A w \in Workers :
    /\ (pc[w] = "p_move" /\ ~existing_size[w].ex) =>
         \/ ~expected[w].known
         \/ expected[w].n = actual_size[w].n
    /\ (pc[w] = "uls_read" /\ route[item[w]] = "VERIFICATION_FAILED") =>
         /\ expected[w].known
         /\ expected[w].n # actual_size[w].n

C17_MarkerReplaced ==
  (mpc = "api" /\ pc[0] = "api_idle" /\ calls > 0 /\ ulsret[0]) =>
    LET l == RStripNL(ReadLines(pre.c)[item[0] + 1])
        a == RStripNL(ReadLines(links.c)[item[0] + 1])
        k == Find(l, HTTPS)
        url == SubSeq(l, k, Len(l))
        marked == StartsWith(l, <<HASH, SP>>)
    IN /\ links.st = "data"
       /\ a = IF k > 0 /\ (marked \/ k = 1)
              THEN pre.s \o <<SP>> \o url
              ELSE pre.s \o <<SP>> \o l
       /\ k > 0 =>
            /\ SubSeq(a, Find(a, HTTPS), Len(a)) = url
            /\ \A s2 \in StoreStatuses :
                 /\ NewLine(a, s2) = s2 \o <<SP>> \o url
                 /\ (marked \/ k = 1) => NewLine(a, s2) = NewLine(l, s2)

\* C17, its case: a call has replaced the marker of a line by another one
C17_OtherMarker ==
  /\ mpc = "api" /\ pc[0] = "api_idle" /\ calls > 0 /\ ulsret[0]
  /\ links.st = "data"
  /\ LET l == RStripNL(ReadLines(pre.c)[item[0] + 1])
         a == RStripNL(ReadLines(links.c)[item[0] + 1])
     IN /\ StartsWith(l, S_Complete \o <<SP, HTTPS>>)
        /\ StartsWith(a, S_Failed \o <<SP, HTTPS>>)

\* C17 as the claim words it: every line that holds a URL is written as s,
\* a space and the URL portion, and a further call with s2 leaves what a
\* call with s2 alone leaves
C17_Idempotent ==
  (mpc = "api" /\ pc[0] = "api_idle" /\ calls > 0 /\ ulsret[0]) =>
    LET l == RStripNL(ReadLines(pre.c)[item[0] + 1])
        a == RStripNL(ReadLines(links.c)[item[0] + 1])
        k == Find(l, HTTPS)
    IN k > 0 =>
         /\ a = pre.s \o <<SP>> \o SubSeq(l, k, Len(l))
         /\ \A s2 \in StoreStatuses : NewLine(a, s2) = NewLine(l, s2)

\* C18: an exception arrives at the handler of download_worker from inside
\* process_download only; the step that handles it, like the step that ends
\* a pipeline with any outcome, takes the worker back to the head of its
\* loop and leaves the main thread, the other workers and the queue as they
\* are; a worker leaves its loop only from the head of the loop, with the
\* queue empty; the main thread does not crash
C18_WorkerGoesOn ==
  [][
    /\ mpc' # "crashed"
    /\ \A w \in Workers :
         /\ (pc[w] # "w_except" /\ pc'[w] = "w_except") =>
              /\ pc[w] \in UlsPcs
              /\ mpc' = mpc
         /\ (pc[w] \in {"w_except", "p_return"} /\ pc'[w] # pc[w]) =>
              /\ pc'[w] = "w_get"
              /\ outcome'[item[w]] =
                   IF pc[w] = "w_except" THEN "EXCEPTION" ELSE route[item[w]]
              /\ mpc' = mpc
              /\ queue' = queue
              /\ \A v \in Workers \ {w} : pc'[v] = pc[v]
         /\ (pc[w] # "w_done" /\ pc'[w] = "w_done") =>
              /\ pc[w] = "w_get"
              /\ queue = << >>
  ]_vars

\* C18, its case: the worker of slot w, which took entry w and met an
\* exception in it, has taken the last entry of a list of PoolLines and
\* processed it to a failure outcome, while the main thread is in its
\* monitor loop
C18_NextEntryAfterException ==
  \E w \in 0 .. (max_concurrent - 1) :
    /\ outcome[w] = "EXCEPTION"
    /\ item[w] = PoolLines - 1
    /\ pc[w] = "p_return"
    /\ route[item[w]] = "DOWNLOAD_FAILED"
    /\ mpc = "m_monitor"

\* C19: once the signal has been handled while transfers are under way in
\* workers, there comes a moment when each of them has been seen to its end
\* by its worker, and from the signal on nothing more is printed
C19_TransfersContinue ==
  /\ (mpc = "interrupted" /\ \E w \in Workers : pc[w] = "p_wget")
       ~> (\A w \in Workers : pc[w] \notin {"p_wget", "w_orphan"})
  /\ [][mpc = "interrupted" => fi' = fi /\ junk' = junk]_vars

\* C20: a call of update_line_status that finds the link list with no line
\* at its index returns False to the place that called it and raises
\* nothing, with the link list, the backup, sys.stdout and the state of
\* fileinput left as they were; the pipeline that called it goes on to
\* return the outcome it had chosen
C20_OutOfRange ==
  [][
    \A t \in Workers :
      /\ ( /\ pc[t] = "uls_read"
           /\ pc'[t] # "uls_read"
           /\ links.st # "absent"
           /\ item[t] >= Len(ReadLines(links.c)) ) =>
             /\ pc'[t] = AfterUls(t)
             /\ ~ulsret'[t]
             /\ applied' = applied
             /\ fsvars' = fsvars
      /\ (pc[t] = "p_return" /\ pc'[t] # "p_return" /\ ~ulsret[t]) =>
             /\ pc'[t] = "w_get"
             /\ outcome'[item[t]] = route[item[t]]
  ]_vars

\* C20, its case: a worker is back in process_download from a call that
\* found no line at its index, the link list still has none there and is
\* not rewritten for the entry, and the worker is about to return its
\* outcome
C20_ReturnedNotFound ==
  \E w \in Workers :
    /\ pc[w] = "p_return"
    /\ ~ulsret[w]
    /\ links.st # "absent"
    /\ item[w] >= Len(ReadLines(links.c))
    /\ applied[item[w]] = 0
    /\ route[item[w]] = "DOWNLOAD_FAILED"

\* C21: in every state the work-outstanding counter active_downloads is at
\* least the number of entries that workers are processing
C21_CounterCoversInFlight ==
  active_downloads >= Cardinality({w \in Workers : InFlight(w)})

\* C22: the run comes to a state in which the queue is drained, every worker
\* that was started has left its loop and process_downloads has returned
C22_Terminates ==
  <>( /\ mpc = "exited"
      /\ queue = << >>
      /\ \A w \in Workers : pc[w] \in {"w_off", "w_done"} )

\* C23: a slot that has begun a transfer before sleeps no stagger delay
\* ahead of its next transfer
C23_StaggerOnce ==
  \A w \in Workers :
    ( /\ pc[w] = "p_start"
      /\ slot_status[w] \in {"loading", "COMPLETE", "FAILED", "ERROR"} ) =>
        Stagger(w) = 0

\* C24: a worker leaves its loop by taking a None from the queue, and only so
C24_SentinelShutdown ==
  [][
    \A w \in Workers :
      (pc[w] # "w_done" /\ pc'[w] = "w_done") =>
        /\ queue # << >>
        /\ Head(queue) = None
        /\ queue' = Tail(queue)
  ]_vars

C29_OnlyMarkersAdded ==
  (links.st = "data" /\ \A w \in Workers : ~Iterating(w)) =>
    LET was == StripLines(orig)
        now == StripLines(links.c)
    IN /\ Len(now) = Len(was)
       /\ \A i \in 1 .. Len(was) :
            \/ now[i] = was[i]
            \/ \E st \in {S_Complete, S_CompleteExisted, S_Failed, S_FailedMove,
                           S_FailedMismatch, S_FailedUnknown} :
                 now[i] = st \o <<SP>> \o was[i]

====
